---- MODULE Spec2Model ----
(***************************************************************************)
(* TradingGrok: the advisory-to-order pipeline.                            *)
(*   grok_analyzer.py   GrokAnalyzer   (advisory client, action resolver,  *)
(*                                      error-feedback store)              *)
(*   alpaca_trader.py   AlpacaTrader   (execution guard, order submission) *)
(*   trading_bot.py     TradingBot     (trading loop and trading cycle)    *)
(*                                                                         *)
(* Python dicts are functions with a string domain; a key that is absent   *)
(* from a dict is absent from the function's DOMAIN.  None, the empty dict, *)
(* the empty list and the empty string are all the empty sequence: the     *)
(* code tells them apart nowhere, it tests each of them with `not`.  A     *)
(* number that may be None is <<n>> or None; a symbol is a string, the     *)
(* empty symbol the string "".  Prices and amounts of money are whole      *)
(* numbers.                                                                *)
(***************************************************************************)
EXTENDS Integers, Sequences, FiniteSets, TLC

VARIABLES
    pc,             \* position of the trading task (see the actions)
    cycles,         \* trading cycles started so far
    trade_errors,   \* GrokAnalyzer.trade_errors
    last_analysis,  \* TradingBot.last_analysis
    attempt,        \* _call_grok_api: the loop variable `attempt` (0-based)
    reduced,        \* _call_grok_api: use_reduced_search of the running call
    requests,       \* HTTP requests sent by the running analyze_market call
    sleeps,         \* backoff delays slept by the running _call_grok_api call
    errors_at_call, \* trade_errors when the running analyze_market call began
    prompt_errors,  \* the errors embedded in the prompt of that call
    http_log,       \* outcomes of the requests of the running _call_grok_api call
    grok_response,  \* the content string the advisory service answered with
    analysis,       \* value returned by analyze_market / format_trades
    idx,            \* index of the next trade of analysis["trades"]
    positions,      \* brokerage: open positions
    open_orders,    \* brokerage: open orders
    buying_power,   \* brokerage: account buying power
    last_exec,      \* what the last execute_trade call saw, did and returned
    trading_active, \* TradingBot.trading_active
    account_info,   \* execute_trading_cycle: the account snapshot of the cycle
    recorded,       \* the errors add_trade_error was given since the last clear
    client,         \* GrokAnalyzer.client: "none", "open" or "closed"
    submit_calls,   \* the api.submit_order calls of the running cycle
    emergency_stopped, \* the dashboard's emergency_stop endpoint has been called
    shutdown,       \* main.py lifespan shutdown: "no", "stopping", "cancelled"
    clock           \* what the last iteration of run_trading_loop read: the
                    \* minutes until close, the trading window, the market clock

vars == <<pc, cycles, trade_errors, last_analysis, attempt, reduced, requests,
          sleeps, errors_at_call, prompt_errors, http_log, grok_response,
          analysis, idx, positions, open_orders, buying_power, last_exec,
          trading_active, account_info, recorded, client, submit_calls,
          emergency_stopped, shutdown, clock>>

-----------------------------------------------------------------------------
(* Python values *)

None == <<>>

EmptyDict == <<>>

\* dict.get(k, default)
Get(d, k, default) == IF k \in DOMAIN d THEN d[k] ELSE default

\* dict.get(k) of a numeric field
GetOpt(d, k) == IF k \in DOMAIN d THEN <<d[k]>> ELSE None

Abs(n) == IF n < 0 THEN 0 - n ELSE n

Opt(k, S) == {EmptyDict} \cup {k :> v : v \in S}

-----------------------------------------------------------------------------
(* GrokAnalyzer.format_trades: the action resolver *)

\* ResolveSide with the sign of qty_change ignored for OPEN
ResolveSide_OpenAnySign(action_type, qty_change) ==
    IF action_type = "OPEN" /\ qty_change # 0 THEN "buy"
    ELSE IF action_type = "ADD" /\ qty_change > 0 THEN "buy"
    ELSE IF action_type = "SHORT" /\ qty_change < 0 THEN "sell"
    ELSE IF action_type = "COVER" /\ qty_change > 0 THEN "buy"
    ELSE IF action_type \in {"REDUCE", "CLOSE"} /\ qty_change < 0 THEN "sell"
    ELSE IF action_type \in {"REDUCE", "CLOSE"} /\ qty_change > 0 THEN "buy"
    ELSE "skip"

\* lines 554-580: the if/elif chain; "skip" is the `continue` of the else branch
ResolveSide(action_type, qty_change) ==
    IF action_type = "OPEN" /\ qty_change > 0 THEN "buy"
    ELSE IF action_type = "ADD" /\ qty_change > 0 THEN "buy"
    ELSE IF action_type = "SHORT" /\ qty_change < 0 THEN "sell"
    ELSE IF action_type = "COVER" /\ qty_change > 0 THEN "buy"
    ELSE IF action_type \in {"REDUCE", "CLOSE"} /\ qty_change < 0 THEN "sell"
    ELSE IF action_type \in {"REDUCE", "CLOSE"} /\ qty_change > 0 THEN "buy"
    ELSE "skip"

\* line 547
ActionType(action) == Get(action, "action", "OPEN")

\* lines 549-551
QtyChange(action) ==
    LET current_qty == Get(action, "current_qty", 0)
        target_qty  == Get(action, "target_qty", 0)
    IN  Get(action, "qty_change", target_qty - current_qty)

\* lines 557-577: every accepting branch sets trade_qty = abs(qty_change)
TradeQty(action) == Abs(QtyChange(action))

\* a JSON number and a JSON string, where a field may hold either
Number(n) == [number |-> n]

Text(t) == [string |-> t]

IsNumber(v) == "number" \in DOMAIN v

\* lines 592 and 629: action.get("confidence", 0.5), in tenths
DefaultConfidence == Number(5)

\* lines 582-598: the trade dict (reasoning and holding_period, which nothing
\* reads but the log, are left out)
MakeTrade(action) ==
    [symbol        |-> action["symbol"],
     side          |-> ResolveSide(ActionType(action), QtyChange(action)),
     qty           |-> TradeQty(action),
     type          |-> "limit",
     limit_price   |-> Get(action, "entry_price_max",
                           Get(action, "entry_price_min", 100)),
     time_in_force |-> "day",
     stop_loss     |-> GetOpt(action, "stop_loss"),
     target_price  |-> GetOpt(action, "target_price"),
     confidence    |-> Get(action, "confidence", DefaultConfidence),
     action_type   |-> ActionType(action),
     current_qty   |-> Get(action, "current_qty", 0),
     target_qty    |-> Get(action, "target_qty", 0),
     urgency       |-> Get(action, "urgency", "MEDIUM")]

\* line 548: action["symbol"] raises KeyError when the key is absent
Raises(action) == "symbol" \notin DOMAIN action

\* line 629: the log line of an accepted entry formats confidence * 100 with
\* :.1f, which raises when the confidence is no number
LogRaises(action) == ~IsNumber(Get(action, "confidence", DefaultConfidence))

\* the loop over the actions with the stop-loss of a trade taken from the
\* trade that follows it
RECURSIVE FormatActions_CarriesStopLoss(_)
FormatActions_CarriesStopLoss(actions) ==
    IF actions = <<>> THEN [raised |-> FALSE, trades |-> <<>>]
    ELSE IF Raises(Head(actions)) THEN [raised |-> TRUE, trades |-> <<>>]
    ELSE LET rest == FormatActions_CarriesStopLoss(Tail(actions))
         IN  IF rest.raised THEN rest
             ELSE IF ResolveSide(ActionType(Head(actions)),
                                 QtyChange(Head(actions))) = "skip"
                  THEN rest
                  ELSE IF LogRaises(Head(actions))
                  THEN [raised |-> TRUE, trades |-> <<>>]
                  ELSE [rest EXCEPT !.trades =
                          <<[MakeTrade(Head(actions)) EXCEPT !.stop_loss =
                               IF rest.trades = <<>> THEN @
                               ELSE rest.trades[1].stop_loss]>> \o @]

\* the loop over the actions with an entry that has no symbol skipped alone
RECURSIVE FormatActions_SkipsNoSymbol(_)
FormatActions_SkipsNoSymbol(actions) ==
    IF actions = <<>> THEN [raised |-> FALSE, trades |-> <<>>]
    ELSE LET rest == FormatActions_SkipsNoSymbol(Tail(actions))
         IN  IF Raises(Head(actions)) THEN rest
             ELSE IF rest.raised THEN rest
             ELSE IF ResolveSide(ActionType(Head(actions)),
                                 QtyChange(Head(actions))) = "skip"
                  THEN rest
                  ELSE IF LogRaises(Head(actions))
                  THEN [raised |-> TRUE, trades |-> <<>>]
                  ELSE [rest EXCEPT !.trades = <<MakeTrade(Head(actions))>> \o @]

\* lines 545-633: the loop over the actions; raised when an entry raises
RECURSIVE FormatActions(_)
FormatActions(actions) ==
    IF actions = <<>> THEN [raised |-> FALSE, trades |-> <<>>]
    ELSE IF Raises(Head(actions)) THEN [raised |-> TRUE, trades |-> <<>>]
    ELSE LET rest == FormatActions(Tail(actions))
         IN  IF rest.raised THEN rest
             ELSE IF ResolveSide(ActionType(Head(actions)),
                                 QtyChange(Head(actions))) = "skip"
                  THEN rest
                  ELSE IF LogRaises(Head(actions))
                  THEN [raised |-> TRUE, trades |-> <<>>]
                  ELSE [rest EXCEPT !.trades = <<MakeTrade(Head(actions))>> \o @]

\* str.find / str.rfind, 1-based, 0 when the character does not occur
Find(text, c) ==
    IF \E i \in 1..Len(text) : text[i] = c
    THEN CHOOSE i \in 1..Len(text) :
            text[i] = c /\ \A j \in 1..(i - 1) : text[j] # c
    ELSE 0

\* rfind that stops at the first occurrence
RFind_First(text, c) ==
    IF \E i \in 1..Len(text) : text[i] = c
    THEN CHOOSE i \in 1..Len(text) :
            text[i] = c /\ \A j \in 1..(i - 1) : text[j] # c
    ELSE 0

RFind(text, c) ==
    IF \E i \in 1..Len(text) : text[i] = c
    THEN CHOOSE i \in 1..Len(text) :
            text[i] = c /\ \A j \in (i + 1)..Len(text) : text[j] # c
    ELSE 0

\* lines 535-542: grok_response[json_start:json_end]
JsonStr(text) == SubSeq(text, Find(text, "{"), RFind(text, "}"))

\* json.loads: the character "A" stands for the members of the document, so
\* exactly the text  { A }  decodes (to the response's document)
Decodes(json_str) == json_str = <<"{", "A", "}">>

\* lines 530-643
format_trades(response) ==
    IF Find(response.text, "{") = 0 \/ RFind(response.text, "}") = 0 THEN None
    ELSE IF ~Decodes(JsonStr(response.text)) THEN None
    ELSE LET formatted_actions ==
                 FormatActions(Get(response.doc, "actions", <<>>))
         IN  IF formatted_actions.raised THEN None
             ELSE [trades |-> formatted_actions.trades]

-----------------------------------------------------------------------------
(* AlpacaTrader: the execution guard and the order submission.              *)
(* What the brokerage answers is a parameter of the operators:              *)
(*   account            get_account_info(): a dict, {} when the call failed *)
(*   current_positions  get_positions(): a list, [] when the call failed    *)
(*   lookup             api.get_latest_trade(symbol): raises, or a price    *)
(*                      (0: no trade, or a trade without a price)           *)
(*   rejects            api.submit_order raises                             *)

\* lines 143-148: available_qty, the magnitude of the first position in symbol
\* AvailableQty without the absolute value: a short position counts as less
\* than nothing
AvailableQty_Signed(current_positions, symbol) ==
    IF \E i \in 1..Len(current_positions) : current_positions[i].symbol = symbol
    THEN LET i == CHOOSE k \in 1..Len(current_positions) :
                     /\ current_positions[k].symbol = symbol
                     /\ \A j \in 1..(k - 1) : current_positions[j].symbol # symbol
         IN  current_positions[i].qty
    ELSE 0

AvailableQty(current_positions, symbol) ==
    IF \E i \in 1..Len(current_positions) : current_positions[i].symbol = symbol
    THEN LET i == CHOOSE k \in 1..Len(current_positions) :
                     /\ current_positions[k].symbol = symbol
                     /\ \A j \in 1..(k - 1) : current_positions[j].symbol # symbol
         IN  Abs(current_positions[i].qty)
    ELSE 0

\* GuardOutcome without the comparison of the cost with the buying power
GuardOutcome_NoBuyingPowerCheck(symbol, side, qty, account, current_positions, lookup) ==
    IF account = EmptyDict THEN "no account"
    ELSE IF side = "sell" /\ qty > AvailableQty(current_positions, symbol)
         THEN "insufficient quantity"
    ELSE IF side = "buy" /\ lookup.raises THEN "exception"
    ELSE "pass"

\* lines 135-167: the branch _can_execute_trade leaves by
GuardOutcome(symbol, side, qty, account, current_positions, lookup) ==
    IF account = EmptyDict THEN "no account"
    ELSE IF side = "sell" /\ qty > AvailableQty(current_positions, symbol)
         THEN "insufficient quantity"
    ELSE IF side = "buy" /\ lookup.raises THEN "exception"
    ELSE IF side = "buy" /\ lookup.price # 0
                         /\ lookup.price * qty > account["buying_power"]
         THEN "insufficient buying power"
    ELSE "pass"

\* lines 133-167: the boolean is all the caller gets
_can_execute_trade(symbol, side, qty, account, current_positions, lookup) ==
    GuardOutcome(symbol, side, qty, account, current_positions, lookup) = "pass"

\* lines 97-98 and 117-118
LimitPrice(trade_signal) ==
    IF Get(trade_signal, "type", "market") = "limit"
    THEN "limit_price" :> Get(trade_signal, "limit_price", None)
    ELSE EmptyDict

\* lines 101-102
TakeProfit(trade_signal) ==
    IF "target_price" \in DOMAIN trade_signal
    THEN "take_profit" :> [limit_price |-> trade_signal["target_price"]]
    ELSE EmptyDict

\* lines 109-118: the plain order
PlainOrder(trade_signal) ==
    [symbol        |-> trade_signal["symbol"],
     qty           |-> trade_signal["qty"],
     side          |-> trade_signal["side"],
     type          |-> Get(trade_signal, "type", "market"),
     time_in_force |-> Get(trade_signal, "time_in_force", "day")]
        @@ LimitPrice(trade_signal)

\* lines 86-102: the bracket order
BracketOrder(trade_signal) ==
    PlainOrder(trade_signal)
        @@ [order_class |-> "bracket",
            stop_loss   |-> [stop_price |-> trade_signal["stop_loss"]]]
        @@ TakeProfit(trade_signal)

\* line 85
UsesBracket(trade_signal) ==
    /\ Get(trade_signal, "action_type", "OPEN") \in {"OPEN", "ADD"}
    /\ "stop_loss" \in DOMAIN trade_signal

\* lines 84-120: the parameters of the submit_order call
OrderParams(trade_signal) ==
    IF UsesBracket(trade_signal) THEN BracketOrder(trade_signal)
    ELSE PlainOrder(trade_signal)

Success == [text |-> "Success"]

UnknownError == [text |-> "Trade execution failed: unknown error"]

\* str(e) of the exception submit_order raised
Rejected == [text |-> "order rejected"]

\* execute_trade without the handler of lines 126-129
execute_trade_NoHandler(trade_signal, account, current_positions, lookup, rejects) ==
    IF _can_execute_trade(trade_signal["symbol"], trade_signal["side"],
                          trade_signal["qty"], account, current_positions, lookup)
    THEN [submitted |-> OrderParams(trade_signal),
          raised    |-> rejects,
          ok        |-> ~rejects,
          msg       |-> IF rejects THEN None ELSE Success]
    ELSE [submitted |-> None, raised |-> FALSE, ok |-> FALSE, msg |-> UnknownError]

\* lines 73-131: submitted is the argument of the submit_order call (None when
\* there was no call); raised tells whether the call ended in an exception
\* (the try block of lines 75-129 holds every statement that can raise, and
\* `except Exception` turns what submit_order raises into the returned
\* message); ok and msg are the returned pair
execute_trade(trade_signal, account, current_positions, lookup, rejects) ==
    IF _can_execute_trade(trade_signal["symbol"], trade_signal["side"],
                          trade_signal["qty"], account, current_positions, lookup)
    THEN [submitted |-> OrderParams(trade_signal),
          raised    |-> FALSE,
          ok        |-> ~rejects,
          msg       |-> IF rejects THEN Rejected ELSE Success]
    ELSE [submitted |-> None, raised |-> FALSE, ok |-> FALSE, msg |-> UnknownError]

\* grok_analyzer.py lines 116-125: the shares of symbol locked in open sell orders
RECURSIVE LockedShares(_, _)
LockedShares(orders, symbol) ==
    IF orders = <<>> THEN 0
    ELSE (IF Head(orders).symbol = symbol /\ Head(orders).side = "sell"
          THEN Head(orders).qty ELSE 0)
         + LockedShares(Tail(orders), symbol)

-----------------------------------------------------------------------------
(* The advisory responses the resolver is applied to *)

\* longest list of actions in a response
MaxActions == 2

ActionTypes == {"OPEN", "ADD", "REDUCE", "CLOSE", "SHORT", "COVER"}

\* an entry of "actions": every key may be absent; the first entry of a response
\* ranges over all of these
ResolveActions ==
    {s @@ a @@ c @@ t @@ q @@ e :
        s \in Opt("symbol", {"AAPL", "MSFT"}),
        a \in Opt("action", ActionTypes \cup {"HOLD"}),
        c \in Opt("current_qty", {2}),
        t \in Opt("target_qty", {-2, 2}),
        q \in Opt("qty_change", {-1, 0, 1}),
        e \in {EmptyDict, [stop_loss |-> 7, target_price |-> 8]}}

\* the entries that follow the first one
SiblingActions ==
    {s @@ a @@ c @@ t @@ e :
        s \in Opt("symbol", {"MSFT"}),
        a \in {"action" :> "OPEN", "action" :> "CLOSE"},
        c \in {"current_qty" :> 0},
        t \in {"target_qty" :> 2, "target_qty" :> -2},
        e \in {EmptyDict, [stop_loss |-> 1, target_price |-> 9]}}

RECURSIVE SeqsUpTo(_, _)
SeqsUpTo(S, n) ==
    IF n = 0 THEN {<<>>}
    ELSE LET shorter == SeqsUpTo(S, n - 1)
         IN  shorter \cup {<<x>> \o r : x \in S, r \in {q \in shorter : Len(q) = n - 1}}

ActionLists ==
    {<<>>} \cup {<<a>> \o rest : a \in ResolveActions,
                                rest \in SeqsUpTo(SiblingActions, MaxActions - 1)}

JsonText == <<"{", "A", "}">>

ResolveResponses ==
    {[text |-> JsonText, doc |-> d] :
        d \in {EmptyDict} \cup {[actions |-> l] : l \in ActionLists}}

\* longest raw response text
MaxText == 4

\* raw texts: braces, the members of a document, any other character
Texts == SeqsUpTo({"{", "}", "A", "x"}, MaxText)

\* the responses whose text varies, around a document of one OPEN
TextResponses ==
    {[text |-> t,
      doc |-> [actions |-> <<[symbol |-> "AAPL", action |-> "OPEN",
                              current_qty |-> 0, target_qty |-> 1]>>]] :
        t \in Texts}

-----------------------------------------------------------------------------
(* State of the bot after construction (TradingBot.__init__,                *)
(* GrokAnalyzer.__init__) with an idle brokerage                            *)

\* no iteration of the loop has read anything yet
NoClock == [minutes_left |-> None, window |-> FALSE, market_open |-> FALSE]

NoExec == [called |-> FALSE]

Constructed ==
    /\ cycles = 0
    /\ trade_errors = <<>>
    /\ last_analysis = None
    /\ attempt = 0
    /\ reduced = FALSE
    /\ requests = 0
    /\ sleeps = <<>>
    /\ errors_at_call = <<>>
    /\ prompt_errors = <<>>
    /\ http_log = <<>>
    /\ analysis = None
    /\ idx = 1
    /\ last_exec = NoExec
    /\ trading_active = FALSE
    /\ account_info = EmptyDict
    /\ recorded = <<>>
    /\ client = "none"
    /\ submit_calls = <<>>
    /\ emergency_stopped = FALSE
    /\ shutdown = "no"
    /\ clock = NoClock

-----------------------------------------------------------------------------
(* SpecResolve: format_trades applied to an advisory response *)

InitResolve ==
    /\ Constructed
    /\ pc = "resolve"
    /\ grok_response \in ResolveResponses \cup TextResponses
    /\ positions = <<>>
    /\ open_orders = <<>>
    /\ buying_power = 0

FormatTrades ==
    /\ pc = "resolve"
    /\ analysis' = format_trades(grok_response)
    /\ pc' = "resolved"
    /\ UNCHANGED <<submit_calls, emergency_stopped, shutdown, trading_active,
                   account_info, cycles, clock, trade_errors, last_analysis, attempt, reduced,
                   requests, sleeps, errors_at_call, prompt_errors, http_log,
                   recorded, client, grok_response, idx, positions, open_orders, buying_power,
                   last_exec>>

NextResolve == FormatTrades

SpecResolve == InitResolve /\ [][NextResolve]_vars

-----------------------------------------------------------------------------
(* SpecTrade: execute_trade applied to the trades the resolver makes, over  *)
(* the states of the brokerage account                                      *)

Symbols == {"AAPL", "MSFT"}

\* the actions the trades are resolved from
TradeActions ==
    {[symbol |-> "AAPL", action |-> a, current_qty |-> q[1], target_qty |-> q[2]]
         @@ sl @@ tp :
        a \in ActionTypes,
        q \in {<<0, 1>>, <<0, 2>>, <<3, 0>>, <<3, 1>>, <<0, -1>>, <<-2, 0>>},
        sl \in Opt("stop_loss", {1}),
        tp \in Opt("target_price", {9})}

ResolvedTrades(actions) ==
    {MakeTrade(a) : a \in {x \in actions :
        ResolveSide(ActionType(x), QtyChange(x)) # "skip"}}

\* get_positions(): qty is signed, negative for a short position
PositionLists ==
    {<<>>}
    \cup {<<[symbol |-> "AAPL", qty |-> q]>> : q \in {3, -2}}
    \cup {<<[symbol |-> "MSFT", qty |-> 1], [symbol |-> "AAPL", qty |-> q]>> :
             q \in {3, -2}}

\* get_open_orders()
OrderLists ==
    {<<>>} \cup {<<[symbol |-> "AAPL", side |-> sd, qty |-> 1]>> : sd \in {"buy", "sell"}}

BuyingPowers == {0, 3}

\* what get_account_info() may return
Accounts == {EmptyDict, [buying_power |-> buying_power]}

\* what get_positions() may return
PositionReads == {<<>>, positions}

\* what api.get_latest_trade(symbol) may do
Lookups == {[raises |-> TRUE, price |-> 0]}
               \cup {[raises |-> FALSE, price |-> p] : p \in {0, 2}}

InitBrokerage ==
    /\ positions \in PositionLists
    /\ open_orders \in OrderLists
    /\ buying_power \in BuyingPowers

InitTrade ==
    /\ Constructed
    /\ pc = "trade"
    /\ grok_response = None
    /\ InitBrokerage

\* what one execute_trade call saw, did and returned
Exec(trade, account, current_positions, lookup, rejects) ==
    [called    |-> TRUE,
     trade     |-> trade,
     account   |-> account,
     available |-> AvailableQty(current_positions, trade["symbol"]),
     lookup    |-> lookup,
     outcome   |-> GuardOutcome(trade["symbol"], trade["side"], trade["qty"],
                                account, current_positions, lookup)]
        @@ execute_trade(trade, account, current_positions, lookup, rejects)

ExecuteTrade ==
    /\ pc = "trade"
    /\ \E trade \in ResolvedTrades(TradeActions), account \in Accounts,
          current_positions \in PositionReads, lookup \in Lookups,
          rejects \in BOOLEAN :
            last_exec' = Exec(trade, account, current_positions, lookup, rejects)
    /\ pc' = "traded"
    /\ UNCHANGED <<submit_calls, emergency_stopped, shutdown, trading_active,
                   account_info, cycles, clock, trade_errors, last_analysis, attempt, reduced,
                   requests, sleeps, errors_at_call, prompt_errors, http_log,
                   recorded, client, grok_response, analysis, idx, positions, open_orders,
                   buying_power>>

NextTrade == ExecuteTrade

SpecTrade == InitTrade /\ [][NextTrade]_vars

-----------------------------------------------------------------------------
(* GrokAnalyzer: the error store and the advisory client.                   *)
(* The task is suspended at `await self.client.post` (pc = "http") and at   *)
(* `await asyncio.sleep(backoff_time)` (pc = "backoff").  pc = "api_return" *)
(* is the return of _call_grok_api to analyze_market, pc = "analyzed" the   *)
(* return of analyze_market to its caller.                                  *)

\* line 31: self.trade_errors[-10:]
MaxStored == 10

\* lines 23-28 (the timestamp of an entry is left out)
ErrorData(symbol, action, error_message) ==
    [symbol |-> symbol, action |-> action, error |-> error_message]

\* add_trade_error that keeps the first ten entries
add_trade_error_KeepsOldest(errors, symbol, action, error_message) ==
    LET appended == Append(errors, ErrorData(symbol, action, error_message))
    IN  IF Len(appended) > 10 THEN SubSeq(appended, 1, 10) ELSE appended

\* lines 21-31
add_trade_error(errors, symbol, action, error_message) ==
    LET appended == Append(errors, ErrorData(symbol, action, error_message))
    IN  IF Len(appended) > MaxStored
        THEN SubSeq(appended, Len(appended) - MaxStored + 1, Len(appended))
        ELSE appended

\* clear_trade_errors that leaves the list as it is
clear_trade_errors_Keeps(errors) == errors

\* lines 34-36
clear_trade_errors(errors) == <<>>

\* line 425: max_retries: int = 3
max_retries == 3

\* what `await self.client.post` may do: answer with a status (and, for a 200,
\* an envelope that holds a content string or is unusable), time out, or
\* raise another exception
Answer(status) == [kind |-> "status", status |-> status]

Answer200(content) == [kind |-> "status", status |-> 200, content |-> content]

Unusable200 == [kind |-> "status", status |-> 200]

Timeout == [kind |-> "timeout"]

OtherException == [kind |-> "exception"]

IsUsable200(o) == o.kind = "status" /\ o.status = 200 /\ "content" \in DOMAIN o

IsServerError(o) == o.kind = "status" /\ o.status >= 500

IsClientError(o) == o.kind = "status" /\ o.status # 200 /\ o.status < 500

\* AttemptResult with one retry too many
AttemptResult_RetriesOnceMore(o, n) ==
    IF IsUsable200(o) THEN "return"
    ELSE IF o.kind = "status" /\ o.status # 200
         THEN IF o.status >= 500 /\ n < max_retries THEN "retry" ELSE "give up"
    ELSE IF n < max_retries THEN "retry" ELSE "give up"

\* AttemptResult with every error status of 400 and above retried
AttemptResult_RetriesClientErrors(o, n) ==
    IF IsUsable200(o) THEN "return"
    ELSE IF o.kind = "status" /\ o.status # 200
         THEN IF o.status >= 400 /\ n < max_retries - 1 THEN "retry" ELSE "give up"
    ELSE IF n < max_retries - 1 THEN "retry" ELSE "give up"

\* AttemptResult with a 200 asked for again while attempts are left
AttemptResult_Retries200(o, n) ==
    IF IsUsable200(o)
    THEN IF n < max_retries - 1 THEN "retry" ELSE "return"
    ELSE IF o.kind = "status" /\ o.status # 200
         THEN IF o.status >= 500 /\ n < max_retries - 1 THEN "retry" ELSE "give up"
    ELSE IF n < max_retries - 1 THEN "retry" ELSE "give up"

\* AttemptResult with no limit on the attempts
AttemptResult_NeverGivesUp(o, n) ==
    IF IsUsable200(o) THEN "return"
    ELSE IF o.kind = "status" /\ o.status # 200
         THEN IF o.status >= 500 THEN "retry" ELSE "give up"
    ELSE "retry"

\* lines 468-525: one pass of the loop, n the value of `attempt`.  A 200 whose
\* envelope is unusable raises inside the try block (lines 482-483) and is
\* handled by `except Exception` like every exception that is no timeout
AttemptResult(o, n) ==
    IF IsUsable200(o) THEN "return"
    ELSE IF o.kind = "status" /\ o.status # 200
         THEN IF o.status >= 500 /\ n < max_retries - 1 THEN "retry" ELSE "give up"
    ELSE IF n < max_retries - 1 THEN "retry" ELSE "give up"

\* backoff_time one power of two too long
BackoffTime_Doubled(n) == 2 ^ (n + 1)

\* lines 493, 506, 519: backoff_time = 2 ** attempt
BackoffTime(n) == 2 ^ n

\* the prompt without the oldest pending error
PromptErrors_DropsOldest(errors) ==
    IF errors = <<>> THEN errors ELSE Tail(errors)

\* lines 139-145 and 193: the errors listed in the prompt, every entry of
\* self.trade_errors in its order
PromptErrors(errors) == SubSeq(errors, 1, Len(errors))

\* lines 43-45 and 433-435: the prompt is built from the pending errors and the first
\* request of the full-scope call is sent.  (api_key is set: Config.validate
\* lets no bot be constructed without it.)
BeginAnalyze ==
    /\ prompt_errors' = PromptErrors(trade_errors)
    /\ client' = IF client = "none" THEN "open" ELSE client
    /\ errors_at_call' = trade_errors
    /\ attempt' = 0
    /\ reduced' = FALSE
    /\ grok_response' = None
    /\ analysis' = None
    /\ pc' = "http"

\* lines 474-525: the request is answered
HttpReturnOf(o) ==
    /\ pc = "http"
    /\ LET result == AttemptResult(o, attempt)
       IN  /\ pc' = IF result = "retry" THEN "backoff" ELSE "api_return"
           /\ grok_response' = IF result = "return" THEN o.content ELSE None
    /\ UNCHANGED <<attempt, reduced, analysis, trade_errors, prompt_errors,
                   errors_at_call, recorded, client>>

\* lines 495-496, 508-509, 521-522: the sleep ends, the next request is sent
BackoffDoneCore ==
    /\ pc = "backoff"
    /\ attempt' = attempt + 1
    /\ pc' = "http"
    /\ UNCHANGED <<reduced, grok_response, analysis, trade_errors,
                   prompt_errors, errors_at_call, recorded, client>>

\* lines 46-49: the full-scope call gave nothing, the reduced call begins
StartsReducedCall == pc = "api_return" /\ grok_response = None /\ ~reduced

\* lines 46-56: analyze_market goes on after _call_grok_api returned
AnalyzeContinueCore ==
    /\ pc = "api_return"
    /\ IF grok_response = None
       THEN IF ~reduced
            THEN /\ reduced' = TRUE
                 /\ attempt' = 0
                 /\ pc' = "http"
                 /\ UNCHANGED <<analysis, trade_errors, recorded>>
            ELSE /\ analysis' = None
                 /\ pc' = "analyzed"
                 /\ UNCHANGED <<reduced, attempt, trade_errors, recorded>>
       ELSE /\ trade_errors' = clear_trade_errors(trade_errors)
            /\ recorded' = <<>>
            /\ analysis' = format_trades(grok_response)
            /\ pc' = "analyzed"
            /\ UNCHANGED <<reduced, attempt>>
    /\ UNCHANGED <<grok_response, prompt_errors, errors_at_call, client>>

-----------------------------------------------------------------------------
(* SpecApi: analyze_market called again and again, trade errors recorded    *)
(* between the calls                                                        *)

\* most errors pending when one more is recorded
MaxPending == 2

Statuses == {204, 404, 500}

\* the content of a 200: empty, without JSON, a document of one valid action,
\* a document with an entry that has no symbol
ApiContents ==
    {None,
     [text |-> <<"x">>, doc |-> EmptyDict],
     [text |-> JsonText,
      doc |-> [actions |-> <<[symbol |-> "AAPL", action |-> "OPEN",
                              current_qty |-> 0, target_qty |-> 1]>>]],
     [text |-> JsonText, doc |-> [actions |-> <<[action |-> "OPEN"]>>]]}

HttpOutcomes ==
    {Answer(st) : st \in Statuses} \cup {Answer200(c) : c \in ApiContents}
        \cup {Unusable200, Timeout, OtherException}

InitApi ==
    /\ Constructed
    /\ pc = "idle"
    /\ grok_response = None
    /\ positions = <<>>
    /\ open_orders = <<>>
    /\ buying_power = 0

Brokerage == <<positions, open_orders, buying_power>>

ApiAddError ==
    /\ pc \in {"idle", "analyzed"}
    /\ Len(trade_errors) < MaxPending
    /\ \E action \in {"OPEN", "CLOSE"} :
         /\ trade_errors' = add_trade_error(trade_errors, "AAPL", action, UnknownError)
         /\ recorded' = Append(recorded, ErrorData("AAPL", action, UnknownError))
    /\ pc' = "idle"
    /\ UNCHANGED <<client, submit_calls, emergency_stopped, shutdown, trading_active,
                   account_info, cycles, clock, last_analysis, attempt, reduced, requests, sleeps,
                   errors_at_call, prompt_errors, http_log, grok_response,
                   analysis, idx, last_exec, Brokerage>>

ApiCall ==
    /\ pc \in {"idle", "analyzed"}
    /\ BeginAnalyze
    /\ requests' = 1
    /\ sleeps' = <<>>
    /\ http_log' = <<>>
    /\ UNCHANGED <<recorded, submit_calls, emergency_stopped, shutdown, trading_active,
                   account_info, cycles, clock, trade_errors, last_analysis, idx, last_exec, Brokerage>>

ApiHttpReturn ==
    /\ \E o \in HttpOutcomes :
        /\ HttpReturnOf(o)
        /\ http_log' = Append(http_log, o)
        /\ sleeps' = IF AttemptResult(o, attempt) = "retry"
                     THEN Append(sleeps, BackoffTime(attempt)) ELSE sleeps
    /\ UNCHANGED <<submit_calls, emergency_stopped, shutdown, trading_active,
                   account_info, cycles, clock, last_analysis, requests, idx, last_exec, Brokerage>>

ApiBackoffDone ==
    /\ BackoffDoneCore
    /\ requests' = requests + 1
    /\ UNCHANGED <<submit_calls, emergency_stopped, shutdown, trading_active,
                   account_info, cycles, clock, last_analysis, sleeps, http_log, idx, last_exec,
                   Brokerage>>

ApiContinue ==
    /\ AnalyzeContinueCore
    /\ IF StartsReducedCall
       THEN requests' = requests + 1 /\ sleeps' = <<>> /\ http_log' = <<>>
       ELSE UNCHANGED <<requests, sleeps, http_log>>
    /\ UNCHANGED <<submit_calls, emergency_stopped, shutdown, trading_active,
                   account_info, cycles, clock, last_analysis, idx, last_exec, Brokerage>>

NextApi == ApiAddError \/ ApiCall \/ ApiHttpReturn \/ ApiBackoffDone \/ ApiContinue

SpecApi == InitApi /\ [][NextApi]_vars

\* SpecApi with the progress the event loop gives a call: every request is
\* answered or times out (the client is built with a timeout), every
\* asyncio.sleep ends, and the code that follows an await is run
SpecApiLive ==
    /\ SpecApi
    /\ WF_vars(ApiHttpReturn)
    /\ WF_vars(ApiBackoffDone)
    /\ WF_vars(ApiContinue)

-----------------------------------------------------------------------------
(* SpecStore: add_trade_error and clear_trade_errors called in any order *)

\* most errors recorded between two clears
MaxRecorded == 12

InitStore ==
    /\ Constructed
    /\ pc = "store"
    /\ grok_response = None
    /\ positions = <<>>
    /\ open_orders = <<>>
    /\ buying_power = 0

StoreUnchanged ==
    UNCHANGED <<pc, cycles, clock, last_analysis, attempt, reduced, requests, sleeps,
                errors_at_call, prompt_errors, http_log, grok_response,
                analysis, idx, Brokerage, last_exec, trading_active,
                account_info, client, submit_calls, emergency_stopped, shutdown>>

AddTradeError ==
    /\ pc = "store"
    /\ Len(recorded) < MaxRecorded
    /\ \E action \in {"OPEN", "CLOSE"} :
         /\ trade_errors' = add_trade_error(trade_errors, "AAPL", action, UnknownError)
         /\ recorded' = Append(recorded, ErrorData("AAPL", action, UnknownError))
    /\ StoreUnchanged

ClearTradeErrors ==
    /\ pc = "store"
    /\ trade_errors' = clear_trade_errors(trade_errors)
    /\ recorded' = <<>>
    /\ StoreUnchanged

NextStore == AddTradeError \/ ClearTradeErrors

SpecStore == InitStore /\ [][NextStore]_vars

-----------------------------------------------------------------------------
(* Spec: the application in web mode (main.py): the trading task of the bot *)
(* that lifespan starts, from start() to the end of the trading loop, the   *)
(* dashboard's emergency_stop endpoint and the shutdown of the application. *)
(* The task is suspended in asyncio.sleep (pc = "sleep"), in the advisory   *)
(* request (pc = "http") and in its backoff (pc = "backoff"); the endpoint  *)
(* and the shutdown run while it is suspended.  The loop over the trades    *)
(* runs without suspension, one trade per step.  An iteration of the loop   *)
(* outside the trading window changes nothing and is a stuttering step.     *)
(* The request logs are not kept here.                                      *)

\* most trading cycles of one run
MaxCycles == 2

BuyAapl == [symbol |-> "AAPL", action |-> "OPEN", current_qty |-> 0, target_qty |-> 2]

SellAapl == [symbol |-> "AAPL", action |-> "CLOSE", current_qty |-> 3, target_qty |-> 0]

\* an action whose symbol is the empty string
BuyNoSymbol == [symbol |-> "", action |-> "OPEN", current_qty |-> 0, target_qty |-> 2]

\* an action the resolver rejects: OPEN with a negative change
OpenDown == [symbol |-> "AAPL", action |-> "OPEN", current_qty |-> 2, target_qty |-> 0]

\* a short sale asked for from a flat position
ShortAapl == [symbol |-> "AAPL", action |-> "SHORT", current_qty |-> 0, target_qty |-> -2]

\* an entry without the symbol field
NoSymbolField == [action |-> "OPEN"]

\* BuyAapl with another confidence and another urgency
BuySure == BuyAapl @@ [confidence |-> Number(9), urgency |-> "HIGH"]

\* BuyAapl with a confidence that is no number
BuyWordy == BuyAapl @@ [confidence |-> Text("high")]

\* the content of a 200 in a trading cycle
CycleContents ==
    {None, [text |-> <<"x">>, doc |-> EmptyDict]}
    \cup {[text |-> JsonText, doc |-> [actions |-> l]] :
            l \in {<<BuyAapl>>, <<SellAapl, BuyAapl>>, <<BuyNoSymbol>>,
                   <<OpenDown, SellAapl>>, <<NoSymbolField>>,
                   <<OpenDown>>, <<SellAapl, SellAapl>>, <<ShortAapl>>,
                   <<SellAapl, NoSymbolField>>, <<BuySure>>, <<BuyWordy>>}}

CycleOutcomes ==
    {Answer(404), Answer(500), Timeout} \cup {Answer200(c) : c \in CycleContents}

Logs == <<requests, sleeps, http_log>>

Web == <<emergency_stopped, shutdown>>

\* where the trading task can be while other code of the event loop runs
Suspended == pc \in {"sleep", "http", "backoff", "done"}

Init ==
    /\ Constructed
    /\ pc = "constructed"
    /\ grok_response = None
    /\ positions \in {<<>>} \cup {<<[symbol |-> "AAPL", qty |-> q]>> : q \in {3, -2}}
    /\ open_orders = <<>>
    /\ buying_power = 3

\* trading_bot.py lines 35-48, 62-65: start() up to the first sleep
Start ==
    /\ pc = "constructed"
    /\ \E should_run_today \in BOOLEAN :
         IF should_run_today
         THEN trading_active' = TRUE /\ pc' = "sleep"
         ELSE trading_active' = FALSE /\ pc' = "done"
    /\ UNCHANGED <<cycles, clock, trade_errors, last_analysis, attempt, reduced, Logs,
                   errors_at_call, prompt_errors, grok_response, analysis, idx,
                   Brokerage, last_exec, account_info, recorded, client,
                   submit_calls, Web>>

\* what minutes_until_close() may return (market_calendar.py lines 54-73):
\* None when the market is closed, else the whole minutes left
MinutesLeft == {None, <<5>>, <<6>>}

\* ClosesSoon with the limit one minute lower
ClosesSoon_BelowFive(minutes_left) ==
    IF minutes_left = None THEN TRUE ELSE minutes_left[1] < 5

\* trading_bot.py lines 70 and 78: the loop ends
ClosesSoon(minutes_left) ==
    IF minutes_left = None THEN TRUE ELSE minutes_left[1] <= 5

\* what an iteration of the loop read
Readings(minutes_left, window, market_open) ==
    [minutes_left |-> minutes_left, window |-> window, market_open |-> market_open]

\* trading_bot.py lines 67-82 and 53-60: trading_active is false, or the
\* market is closed or closes within five minutes; the loop ends and start()
\* calls stop()
LoopExit ==
    /\ pc = "sleep"
    /\ IF trading_active
       THEN \E minutes_left \in MinutesLeft :
               /\ ClosesSoon(minutes_left)
               /\ clock' = Readings(minutes_left, FALSE, FALSE)
       ELSE UNCHANGED clock
    /\ trading_active' = FALSE
    /\ client' = IF client = "open" THEN "closed" ELSE client
    /\ pc' = "done"
    /\ UNCHANGED <<cycles, trade_errors, last_analysis, attempt, reduced, Logs,
                   errors_at_call, prompt_errors, grok_response, analysis, idx,
                   Brokerage, last_exec, account_info, recorded, submit_calls,
                   Web>>

\* StartCycle as if the loop did not wait for the cycle it started: a cycle
\* begins while another one is suspended in its advisory request
StartCycle_NotAwaited ==
    /\ pc \in {"sleep", "http"}
    /\ trading_active
    /\ cycles < MaxCycles
    /\ cycles' = cycles + 1
    /\ last_exec' = NoExec
    /\ submit_calls' = <<>>
    /\ account_info' \in Accounts
    /\ BeginAnalyze
    /\ clock' = Readings(<<6>>, TRUE, TRUE)
    /\ UNCHANGED <<trading_active, trade_errors, last_analysis, Logs, idx,
                   Brokerage, recorded, Web>>

\* trading_bot.py lines 67-92: an iteration outside the trading window
\* starts no cycle and sleeps again
IdleIteration ==
    /\ pc = "sleep"
    /\ trading_active
    /\ \E minutes_left \in MinutesLeft :
         /\ ~ClosesSoon(minutes_left)
         /\ clock' = Readings(minutes_left, FALSE, FALSE)
    /\ UNCHANGED <<pc, cycles, trade_errors, last_analysis, attempt, reduced,
                   Logs, errors_at_call, prompt_errors, grok_response, analysis,
                   idx, Brokerage, last_exec, trading_active, account_info,
                   recorded, client, submit_calls, Web>>

\* StartCycle with the answer of check_market_open ignored
StartCycle_IgnoresClock ==
    /\ pc = "sleep"
    /\ trading_active
    /\ cycles < MaxCycles
    /\ cycles' = cycles + 1
    /\ last_exec' = NoExec
    /\ submit_calls' = <<>>
    /\ \E minutes_left \in MinutesLeft, check_market_open \in BOOLEAN :
         /\ ~ClosesSoon(minutes_left)
         /\ clock' = Readings(minutes_left, TRUE, check_market_open)
    /\ account_info' \in Accounts
    /\ BeginAnalyze
    /\ UNCHANGED <<trading_active, trade_errors, last_analysis, Logs, idx,
                   Brokerage, recorded, Web>>

\* trading_bot.py lines 67-86 and 125-172: more than five minutes are left
\* and the time is in the trading window, a cycle begins; it ends at once
\* when the brokerage says the market is closed (or the clock query fails:
\* alpaca_trader.py lines 229-236), else it takes the account snapshot and
\* calls analyze_market
StartCycle ==
    /\ pc = "sleep"
    /\ trading_active
    /\ cycles < MaxCycles
    /\ cycles' = cycles + 1
    /\ last_exec' = NoExec
    /\ submit_calls' = <<>>
    /\ \E minutes_left \in MinutesLeft, check_market_open \in BOOLEAN :
         /\ ~ClosesSoon(minutes_left)
         /\ clock' = Readings(minutes_left, TRUE, check_market_open)
         /\ IF check_market_open
            THEN /\ account_info' \in Accounts
                 /\ BeginAnalyze
            ELSE /\ pc' = "sleep"
                 /\ UNCHANGED <<account_info, prompt_errors, errors_at_call,
                                attempt, reduced, grok_response, analysis, client>>
    /\ UNCHANGED <<trading_active, trade_errors, last_analysis, Logs, idx,
                   Brokerage, recorded, Web>>

HttpReturn ==
    /\ \E o \in CycleOutcomes : HttpReturnOf(o)
    /\ UNCHANGED <<trading_active, account_info, cycles, clock, last_analysis, Logs,
                   idx, last_exec, Brokerage, submit_calls, Web>>

BackoffDone ==
    /\ BackoffDoneCore
    /\ UNCHANGED <<trading_active, account_info, cycles, clock, last_analysis, Logs,
                   idx, last_exec, Brokerage, submit_calls, Web>>

AnalyzeContinue ==
    /\ AnalyzeContinueCore
    /\ UNCHANGED <<trading_active, account_info, cycles, clock, last_analysis, Logs,
                   idx, last_exec, Brokerage, submit_calls, Web>>

\* should_execute_trade without its sanity checks
should_execute_trade_Always(trade) == TRUE

\* should_execute_trade with a threshold on the confidence
should_execute_trade_MinConfidence(trade) ==
    /\ IsNumber(Get(trade, "confidence", DefaultConfidence))
    /\ Get(trade, "confidence", DefaultConfidence).number >= 7
    /\ Get(trade, "qty", 0) > 0
    /\ Get(trade, "symbol", "") # ""

\* trading_bot.py lines 204-242: the log line 213 formats confidence * 100
\* and raises when the confidence is no number, which the handler of lines
\* 240-242 turns into False; then the checks of lines 219 and 223
should_execute_trade(trade) ==
    /\ IsNumber(Get(trade, "confidence", DefaultConfidence))
    /\ Get(trade, "qty", 0) > 0
    /\ Get(trade, "symbol", "") # ""

\* the trades of a non-empty analysis (line 185)
Trades(a) == Get(a, "trades", <<>>)

\* the submit_order calls of one execute_trade call, with a second call that
\* sends the stop-loss as an order of its own
OrdersSent_SeparateStopLoss(i, exec) ==
    IF exec.submitted = None THEN <<>>
    ELSE <<[trade |-> i, order |-> exec.submitted, accepted |-> exec.ok],
           [trade |-> i, order |-> [exec.submitted EXCEPT !.type = "stop"],
            accepted |-> exec.ok]>>

\* alpaca_trader.py lines 104 and 120: the one submit_order call execute_trade
\* makes for trade i when the guard lets it pass; _set_stop_loss (lines
\* 169-177) is called nowhere and sends nothing
OrdersSent(i, exec) ==
    IF exec.submitted = None THEN <<>>
    ELSE <<[trade |-> i, order |-> exec.submitted, accepted |-> exec.ok]>>

\* AfterAnalysis without the return of lines 179-181
AfterAnalysis_NoAccountCheck ==
    /\ pc = "analyzed"
    /\ IF analysis = None
       THEN pc' = "sleep" /\ UNCHANGED last_analysis
       ELSE /\ last_analysis' = analysis
            /\ pc' = IF Trades(analysis) = <<>> THEN "sleep" ELSE "trades"
    /\ idx' = 1
    /\ UNCHANGED <<trading_active, account_info, cycles, clock, trade_errors, attempt,
                   reduced, Logs, errors_at_call, prompt_errors, grok_response,
                   analysis, last_exec, Brokerage, recorded, client,
                   submit_calls, Web>>

\* AfterAnalysis with a failed analysis ending the trading loop
AfterAnalysis_FailureEndsLoop ==
    /\ pc = "analyzed"
    /\ IF analysis = None
       THEN pc' = "done" /\ trading_active' = FALSE /\ UNCHANGED last_analysis
       ELSE /\ last_analysis' = analysis
            /\ pc' = IF account_info = EmptyDict \/ Trades(analysis) = <<>>
                     THEN "sleep" ELSE "trades"
            /\ UNCHANGED trading_active
    /\ idx' = 1
    /\ UNCHANGED <<account_info, cycles, clock, trade_errors, attempt,
                   reduced, Logs, errors_at_call, prompt_errors, grok_response,
                   analysis, last_exec, Brokerage, recorded, client,
                   submit_calls, Web>>

\* trading_bot.py lines 173-185 (and 199 when there is no trade): the cycle
\* goes on after analyze_market returned
AfterAnalysis ==
    /\ pc = "analyzed"
    /\ IF analysis = None
       THEN pc' = "sleep" /\ UNCHANGED last_analysis
       ELSE /\ last_analysis' = analysis
            /\ pc' = IF account_info = EmptyDict \/ Trades(analysis) = <<>>
                     THEN "sleep" ELSE "trades"
    /\ idx' = 1
    /\ UNCHANGED <<trading_active, account_info, cycles, clock, trade_errors, attempt,
                   reduced, Logs, errors_at_call, prompt_errors, grok_response,
                   analysis, last_exec, Brokerage, recorded, client,
                   submit_calls, Web>>

\* ExecTrade with an error recorded for every trade that was attempted, the
\* submitted ones included
ExecTrade_RecordsEveryTrade ==
    /\ pc = "trades"
    /\ LET trade == Trades(analysis)[idx] IN
       IF should_execute_trade(trade)
       THEN \E account \in Accounts, current_positions \in PositionReads,
               lookup \in Lookups, rejects \in BOOLEAN :
              LET exec == Exec(trade, account, current_positions, lookup, rejects)
                  action_type == Get(trade, "action_type", "UNKNOWN")
              IN  /\ last_exec' = exec
                  /\ submit_calls' = submit_calls \o OrdersSent(idx, exec)
                  /\ trade_errors' = add_trade_error(trade_errors, trade["symbol"],
                                                     action_type, exec.msg)
                  /\ recorded' = Append(recorded, ErrorData(trade["symbol"],
                                                            action_type, exec.msg))
                  /\ pc' = IF exec.raised \/ idx = Len(Trades(analysis))
                           THEN "sleep" ELSE "trades"
       ELSE /\ pc' = IF idx = Len(Trades(analysis)) THEN "sleep" ELSE "trades"
            /\ UNCHANGED <<last_exec, trade_errors, recorded, submit_calls>>
    /\ idx' = idx + 1
    /\ UNCHANGED <<trading_active, account_info, cycles, clock, last_analysis, attempt,
                   reduced, Logs, errors_at_call, prompt_errors, grok_response,
                   analysis, Brokerage, client, Web>>

\* ExecTrade with the loop left at the first trade that fails
ExecTrade_StopsAtFailure ==
    /\ pc = "trades"
    /\ LET trade == Trades(analysis)[idx] IN
       IF should_execute_trade(trade)
       THEN \E account \in Accounts, current_positions \in PositionReads,
               lookup \in Lookups, rejects \in BOOLEAN :
              LET exec == Exec(trade, account, current_positions, lookup, rejects)
                  failed == ~exec.raised /\ ~exec.ok
                  action_type == Get(trade, "action_type", "UNKNOWN")
              IN  /\ last_exec' = exec
                  /\ submit_calls' = submit_calls \o OrdersSent(idx, exec)
                  /\ trade_errors' =
                       IF failed
                       THEN add_trade_error(trade_errors, trade["symbol"],
                                            action_type, exec.msg)
                       ELSE trade_errors
                  /\ recorded' =
                       IF failed
                       THEN Append(recorded, ErrorData(trade["symbol"],
                                                       action_type, exec.msg))
                       ELSE recorded
                  /\ pc' = IF exec.raised \/ failed \/ idx = Len(Trades(analysis))
                           THEN "sleep" ELSE "trades"
       ELSE /\ pc' = IF idx = Len(Trades(analysis)) THEN "sleep" ELSE "trades"
            /\ UNCHANGED <<last_exec, trade_errors, recorded, submit_calls>>
    /\ idx' = idx + 1
    /\ UNCHANGED <<trading_active, account_info, cycles, clock, last_analysis, attempt,
                   reduced, Logs, errors_at_call, prompt_errors, grok_response,
                   analysis, Brokerage, client, Web>>

\* trading_bot.py lines 185-202: one pass of the loop over the trades
ExecTrade ==
    /\ pc = "trades"
    /\ LET trade == Trades(analysis)[idx] IN
       IF should_execute_trade(trade)
       THEN \E account \in Accounts, current_positions \in PositionReads,
               lookup \in Lookups, rejects \in BOOLEAN :
              LET exec == Exec(trade, account, current_positions, lookup, rejects)
                  failed == ~exec.raised /\ ~exec.ok
                  action_type == Get(trade, "action_type", "UNKNOWN")
              IN  /\ last_exec' = exec
                  /\ submit_calls' = submit_calls \o OrdersSent(idx, exec)
                  /\ trade_errors' =
                       IF failed
                       THEN add_trade_error(trade_errors, trade["symbol"],
                                            action_type, exec.msg)
                       ELSE trade_errors
                  /\ recorded' =
                       IF failed
                       THEN Append(recorded, ErrorData(trade["symbol"],
                                                       action_type, exec.msg))
                       ELSE recorded
                  /\ pc' = IF exec.raised \/ idx = Len(Trades(analysis))
                           THEN "sleep" ELSE "trades"
       ELSE /\ pc' = IF idx = Len(Trades(analysis)) THEN "sleep" ELSE "trades"
            /\ UNCHANGED <<last_exec, trade_errors, recorded, submit_calls>>
    /\ idx' = idx + 1
    /\ UNCHANGED <<trading_active, account_info, cycles, clock, last_analysis, attempt,
                   reduced, Logs, errors_at_call, prompt_errors, grok_response,
                   analysis, Brokerage, client, Web>>

\* main.py lines 31 and 52-58: create_app hands the dashboard a TradingBot of
\* its own, lifespan then makes and starts another one
DashboardBotIsRunningBot == FALSE

\* web_dashboard.py lines 58-61 and trading_bot.py lines 56-60: stop() of the
\* dashboard's bot.  That bot was never started: its trading_active is false
\* and its analyzer has no client, so its stop() changes nothing else.
EmergencyStop ==
    /\ Suspended
    /\ shutdown = "no"
    /\ ~emergency_stopped
    /\ emergency_stopped' = TRUE
    /\ trading_active' = IF DashboardBotIsRunningBot THEN FALSE ELSE trading_active
    /\ UNCHANGED <<pc, cycles, clock, trade_errors, last_analysis, attempt, reduced,
                   Logs, errors_at_call, prompt_errors, grok_response, analysis,
                   idx, Brokerage, last_exec, account_info, recorded, client,
                   submit_calls, shutdown>>

\* the task is cancelled where it is suspended: CancelledError passes the
\* `except Exception` handlers and ends the loop (trading_bot.py lines 94-96)
Cancelled == /\ pc' = "done"

\* main.py lines 38-42 and trading_bot.py lines 56-60: the shutdown calls
\* stop() on the running bot.  With a client to close, stop() is suspended in
\* aclose() and the trading task may run before it is cancelled (the request
\* in flight may still be answered); without one, the cancellation follows
\* at once (main.py lines 44-49).
Shutdown ==
    /\ Suspended
    /\ shutdown = "no"
    /\ trading_active' = FALSE
    /\ IF client = "open"
       THEN client' = "closed" /\ shutdown' = "stopping" /\ UNCHANGED pc
       ELSE shutdown' = "cancelled" /\ Cancelled /\ UNCHANGED client
    /\ UNCHANGED <<cycles, clock, trade_errors, last_analysis, attempt, reduced, Logs,
                   errors_at_call, prompt_errors, grok_response, analysis, idx,
                   Brokerage, last_exec, account_info, recorded, submit_calls,
                   emergency_stopped>>

\* main.py lines 44-49: trading_task.cancel() and the wait for the task
ShutdownCancel ==
    /\ Suspended
    /\ shutdown = "stopping"
    /\ shutdown' = "cancelled"
    /\ Cancelled
    /\ UNCHANGED <<cycles, clock, trade_errors, last_analysis, attempt, reduced, Logs,
                   errors_at_call, prompt_errors, grok_response, analysis, idx,
                   Brokerage, last_exec, account_info, recorded, submit_calls,
                   emergency_stopped, trading_active, client>>

Next ==
    \/ Start
    \/ LoopExit
    \/ IdleIteration
    \/ StartCycle
    \/ HttpReturn
    \/ BackoffDone
    \/ AnalyzeContinue
    \/ AfterAnalysis
    \/ ExecTrade
    \/ EmergencyStop
    \/ Shutdown
    \/ ShutdownCancel

Spec == Init /\ [][Next]_vars

-----------------------------------------------------------------------------
(* Claims about the resolver, checked under SpecResolve *)

Actions(response) == Get(response.doc, "actions", <<>>)

AllHaveSymbol(actions) == \A i \in 1..Len(actions) : "symbol" \in DOMAIN actions[i]

\* the response holds a document that decodes
HoldsDocument(response) ==
    /\ Find(response.text, "{") # 0
    /\ RFind(response.text, "}") # 0
    /\ Decodes(JsonStr(response.text))

Sign(n) == IF n > 0 THEN 1 ELSE IF n < 0 THEN -1 ELSE 0

\* the table of valid rows: action_type, sign of qty_change, side
ResolverTable ==
    {<<"OPEN", 1, "buy">>, <<"ADD", 1, "buy">>, <<"COVER", 1, "buy">>,
     <<"SHORT", -1, "sell">>,
     <<"REDUCE", -1, "sell">>, <<"CLOSE", -1, "sell">>,
     <<"REDUCE", 1, "buy">>, <<"CLOSE", 1, "buy">>}

TableRows(action) ==
    {r \in ResolverTable :
        r[1] = ActionType(action) /\ r[2] = Sign(QtyChange(action))}

RECURSIVE TableSides(_)
TableSides(actions) ==
    IF actions = <<>> THEN <<>>
    ELSE (IF TableRows(Head(actions)) = {} THEN <<>>
          ELSE <<(CHOOSE r \in TableRows(Head(actions)) : TRUE)[3]>>)
         \o TableSides(Tail(actions))

Sides(trades) == [i \in 1..Len(trades) |-> trades[i].side]

Quantities(trades) == [i \in 1..Len(trades) |-> trades[i].qty]

\* C1: for a response whose entries all carry a symbol, format_trades emits
\* one trade for each entry whose (action_type, sign of qty_change) is a row
\* of the table and none for any other entry (qty_change = 0, an unknown
\* action_type, a sign the action does not allow), and the side of each
\* trade is the side of its row.
C1_ResolverFollowsTable ==
    (/\ pc = "resolved"
     /\ HoldsDocument(grok_response)
     /\ AllHaveSymbol(Actions(grok_response)))
        => /\ analysis # None
           /\ Sides(analysis.trades) = TableSides(Actions(grok_response))

\* a SHORT with a negative change is sold and the entry beside it is skipped
C1_Witness ==
    /\ pc = "resolved"
    /\ analysis # None
    /\ Len(Actions(grok_response)) = 2
    /\ ActionType(Actions(grok_response)[1]) = "SHORT"
    /\ Sides(analysis.trades) = <<"sell">>

Accepted(action) == TableRows(action) # {}

TargetMinusCurrent(action) ==
    Abs(Get(action, "target_qty", 0) - Get(action, "current_qty", 0))

\* C2: the quantity of every resolved trade is abs(target_qty - current_qty)
\* of its action, whatever the action's qty_change field holds.
C2_QtyIsTargetMinusCurrent ==
    (pc = "resolved" /\ analysis # None)
        => LET accepted == SelectSeq(Actions(grok_response), Accepted)
           IN  Quantities(analysis.trades) =
                   [i \in 1..Len(accepted) |-> TargetMinusCurrent(accepted[i])]

\* C19: format_trades decodes exactly the text from the first "{" to the
\* last "}" of the response; without a "{" or without a "}", or when that
\* text does not decode, it returns None (and raises nothing).
C19_DecodesFirstToLastBrace ==
    pc = "resolved" =>
        LET text   == grok_response.text
            opens  == {i \in 1..Len(text) : text[i] = "{"}
            closes == {i \in 1..Len(text) : text[i] = "}"}
        IN  IF opens = {} \/ closes = {} THEN analysis = None
            ELSE LET first == CHOOSE i \in opens : \A j \in opens : i <= j
                     last  == CHOOSE i \in closes : \A j \in closes : j <= i
                 IN  IF Decodes(SubSeq(text, first, last))
                     THEN AllHaveSymbol(Actions(grok_response)) => analysis # None
                     ELSE analysis = None

\* a document followed by one more "}": the text up to the last brace does
\* not decode
C19_Witness ==
    /\ pc = "resolved"
    /\ grok_response.text = <<"{", "A", "}", "}">>
    /\ analysis = None

\* C20: for a response of several actions the resolver emits one trade for
\* each valid action, in the order of the actions, and the symbol, side,
\* quantity, stop_loss, target_price and action_type of each trade come from
\* its own action.
C20_TradesFollowOwnActions ==
    (/\ pc = "resolved"
     /\ HoldsDocument(grok_response)
     /\ AllHaveSymbol(Actions(grok_response)))
        => LET accepted == SelectSeq(Actions(grok_response), Accepted)
           IN  /\ analysis # None
               /\ Len(analysis.trades) = Len(accepted)
               /\ \A i \in 1..Len(accepted) :
                    LET trade == analysis.trades[i]
                        action == accepted[i]
                    IN  /\ trade.symbol = action.symbol
                        /\ trade.side = (CHOOSE r \in TableRows(action) : TRUE)[3]
                        /\ trade.qty = Abs(QtyChange(action))
                        /\ trade.stop_loss = GetOpt(action, "stop_loss")
                        /\ trade.target_price = GetOpt(action, "target_price")
                        /\ trade.action_type = ActionType(action)

\* an OPEN and a CLOSE for different symbols: one buy and one sell, the
\* stop-loss of each its own
C20_Witness ==
    /\ pc = "resolved"
    /\ analysis # None
    /\ Len(Actions(grok_response)) = 2
    /\ Len(analysis.trades) = 2
    /\ analysis.trades[1].symbol = "AAPL"
    /\ analysis.trades[1].action_type = "OPEN"
    /\ analysis.trades[1].side = "buy"
    /\ analysis.trades[1].stop_loss = None
    /\ analysis.trades[2].symbol = "MSFT"
    /\ analysis.trades[2].action_type = "CLOSE"
    /\ analysis.trades[2].side = "sell"
    /\ analysis.trades[2].stop_loss = <<1>>

-----------------------------------------------------------------------------
(* Claims about the execution guard and the submission, checked under       *)
(* SpecTrade                                                                *)

Submitted == last_exec.called /\ last_exec.submitted # None

\* C3: no sell order is submitted whose quantity exceeds the position in its
\* symbol minus the quantity locked in the open sell orders for that symbol.
C3_SellWithinUnlockedQuantity ==
    (Submitted /\ last_exec.submitted.side = "sell")
        => last_exec.submitted.qty
               <= AvailableQty(positions, last_exec.submitted.symbol)
                    - LockedShares(open_orders, last_exec.submitted.symbol)

\* C4: no buy order is submitted for which the reference price fetched for
\* its symbol times its quantity exceeds the account's buying power.
C4_BuyWithinBuyingPower ==
    (Submitted /\ last_exec.submitted.side = "buy")
        => /\ ~last_exec.lookup.raises
           /\ last_exec.lookup.price * last_exec.submitted.qty <= buying_power

\* a buy whose cost was computed from a price and fits the buying power
C4_Witness ==
    /\ Submitted
    /\ last_exec.submitted.side = "buy"
    /\ last_exec.lookup.price = 2
    /\ last_exec.submitted.qty = 1
    /\ buying_power = 3

IsBracket(order) == "order_class" \in DOMAIN order

\* C5: a submitted order is a bracket order iff its trade is an OPEN or ADD
\* and carries a stop-loss value; a bracket order has a take-profit leg iff
\* the trade has a target price; every other order is a plain order.
C5_BracketIffStopLoss ==
    Submitted
        => /\ IsBracket(last_exec.submitted)
                <=> /\ last_exec.trade.action_type \in {"OPEN", "ADD"}
                    /\ last_exec.trade.stop_loss # None
           /\ IsBracket(last_exec.submitted)
                => ("take_profit" \in DOMAIN last_exec.submitted
                        <=> last_exec.trade.target_price # None)

-----------------------------------------------------------------------------
(* Claim about the error recorded for a refused trade, checked under Spec *)

\* the failure values that name the reason of a refusal
InsufficientQuantity(requested, available) ==
    [text |-> "Insufficient quantity", requested |-> requested,
     available |-> available]

InsufficientBuyingPower(estimated_cost, power) ==
    [text |-> "Insufficient buying power", estimated_cost |-> estimated_cost,
     buying_power |-> power]

\* the reason for which the guard refused the last trade
RefusalReason ==
    IF last_exec.outcome = "insufficient quantity"
    THEN InsufficientQuantity(last_exec.trade["qty"], last_exec.available)
    ELSE InsufficientBuyingPower(last_exec.lookup.price * last_exec.trade["qty"],
                                 last_exec.account["buying_power"])

\* C6: when the guard refuses a sell for its quantity or a buy for its cost,
\* the failure value execute_trade returns, and so the error recorded for the
\* next prompt, names that reason with its amounts.
C6_RefusalNamesReason ==
    (/\ last_exec.called
     /\ last_exec.outcome \in {"insufficient quantity", "insufficient buying power"})
       => /\ last_exec.msg = RefusalReason
          /\ trade_errors # <<>>
          /\ trade_errors[Len(trade_errors)].error = RefusalReason

\* the error recorded in the cycle is the value execute_trade returned
RecordedIsReturned ==
    (last_exec.called /\ ~last_exec.ok)
       => /\ trade_errors # <<>>
          /\ trade_errors[Len(trade_errors)].error = last_exec.msg

-----------------------------------------------------------------------------
(* Claim about the error store, checked under SpecStore *)

\* the last n entries of s, all of s when it has fewer
LastEntries(s, n) == IF Len(s) <= n THEN s ELSE SubSeq(s, Len(s) - n + 1, Len(s))

\* C11: after any sequence of add_trade_error and clear_trade_errors calls
\* the store holds at most 10 entries, which are the (up to) 10 entries
\* recorded last since the last clear, in recording order; after a clear it
\* is empty.
C11_StoreHoldsLastTen ==
    /\ Len(trade_errors) <= 10
    /\ trade_errors = LastEntries(recorded, 10)

\* twelve errors recorded, the two oldest evicted
C11_Witness ==
    /\ pc = "store"
    /\ Len(recorded) = 12
    /\ Len(trade_errors) = 10
    /\ recorded[1] # recorded[3]
    /\ trade_errors[1] = recorded[3]
    /\ trade_errors[10] = recorded[12]

-----------------------------------------------------------------------------
(* Claims about the trading cycle, the stop requests and the errors fed     *)
(* back, checked under Spec                                                 *)

InAdvisoryCall == pc \in {"http", "backoff", "api_return"}

Range(seq) == {seq[i] : i \in 1..Len(seq)}

\* C12: the prompt of a cycle's advisory request lists every error that is
\* in the store when the request is made, those of earlier cycles included,
\* and the clear of that cycle removes only errors the prompt listed.
C12_ClearedErrorsWereSent ==
    /\ [](InAdvisoryCall => prompt_errors = trade_errors)
    /\ [][(trade_errors # <<>> /\ trade_errors' = <<>>)
            => Range(trade_errors) \subseteq Range(prompt_errors)]_vars

\* the second cycle has answered a prompt that listed an error of the first,
\* and the store is cleared
C12_Witness ==
    /\ cycles = 2
    /\ pc = "analyzed"
    /\ grok_response # None
    /\ prompt_errors # <<>>
    /\ errors_at_call = prompt_errors
    /\ trade_errors = <<>>

\* a step of the cycle in which api.submit_order is called
SubmissionBegins == Len(submit_calls') > Len(submit_calls)

\* C13: once stop() has set trading_active to false, no order submission
\* begins; the trades of a cycle that was suspended in the advisory call when
\* stop() ran are not submitted.
C13_NoSubmissionAfterStop == [][SubmissionBegins => trading_active]_vars

StopRequested == emergency_stopped \/ shutdown # "no"

\* C14: after an external stop request (the emergency_stop endpoint, or the
\* shutdown of the application) the running trading loop begins no new
\* trading cycle.
C14_NoCycleAfterStopRequest == [][StopRequested => cycles' = cycles]_vars

\* a step of the loop over the trades that handles trade number idx
HandlesTrade == pc = "trades" /\ idx' = idx + 1

SubmittedOk == SubmissionBegins /\ submit_calls'[Len(submit_calls')].accepted

\* C16: for every resolved trade of a cycle, a trade that is not submitted
\* successfully adds exactly one error with its symbol and action_type to
\* the store, and a trade that is submitted successfully adds none.
C16_OneErrorPerFailedTrade ==
    [][HandlesTrade =>
        LET trade == Trades(analysis)[idx]
            n == Len(trade_errors')
        IN  IF SubmittedOk
            THEN trade_errors' = trade_errors
            ELSE /\ n = Len(trade_errors) + 1
                 /\ SubSeq(trade_errors', 1, n - 1) = trade_errors
                 /\ trade_errors'[n].symbol = trade.symbol
                 /\ trade_errors'[n].action = trade.action_type]_vars

\* the entries of the response of the running cycle that may be submitted:
\* a row of the resolver's table, a positive quantity, a symbol
MaySubmit(action) ==
    /\ "symbol" \in DOMAIN action
    /\ action["symbol"] # ""
    /\ Accepted(action)
    /\ Abs(QtyChange(action)) > 0

\* C17: an action the resolver rejects, and a trade with a non-positive
\* quantity or an empty symbol, never causes a submit_order call: every
\* call of a cycle carries a symbol and a positive quantity, and there are no
\* more calls than entries that may be submitted.
C17_RejectedNeverSubmitted ==
    /\ \A i \in 1..Len(submit_calls) :
          /\ submit_calls[i].order.symbol # ""
          /\ submit_calls[i].order.qty > 0
    /\ submit_calls # <<>> =>
          /\ grok_response # None
          /\ Len(submit_calls)
                <= Len(SelectSeq(Actions(grok_response), MaySubmit))

\* the cycle has handled a trade with an empty symbol and called nothing
C17_Witness ==
    /\ pc = "sleep"
    /\ analysis # None
    /\ Len(Trades(analysis)) = 1
    /\ Trades(analysis)[1].symbol = ""
    /\ idx = 2
    /\ submit_calls = <<>>

\* C18: each resolved trade leads to at most one submit_order call: nothing
\* is retried within the cycle, and the stop-loss is no order of its own.
C18_OneSubmissionPerTrade ==
    /\ \A i, j \in 1..Len(submit_calls) :
          i # j => submit_calls[i].trade # submit_calls[j].trade
    /\ \A i \in 1..Len(submit_calls) :
          /\ submit_calls[i].trade \in 1..Len(Trades(analysis))
          /\ submit_calls[i].order.type = Trades(analysis)[submit_calls[i].trade].type

\* two trades handled, the submission of the first refused by the brokerage
C18_Witness ==
    /\ pc = "sleep"
    /\ Len(submit_calls) = 2
    /\ ~submit_calls[1].accepted
    /\ submit_calls[1].trade = 1
    /\ submit_calls[2].trade = 2

-----------------------------------------------------------------------------
(* Claim about exceptions of the brokerage, checked under SpecTrade *)

BrokerageRaised ==
    \/ last_exec.account = EmptyDict
    \/ (last_exec.trade.side = "buy" /\ last_exec.lookup.raises)
    \/ (last_exec.submitted # None /\ last_exec.msg # Success)

\* C15: whatever the brokerage raises while a trade is checked or submitted,
\* execute_trade returns (False, message) and raises nothing.
C15_ExecuteTradeNeverRaises ==
    last_exec.called
        => /\ ~last_exec.raised
           /\ BrokerageRaised => (~last_exec.ok /\ last_exec.msg # None)

\* the brokerage refused the order that was submitted
C15_Witness ==
    /\ last_exec.called
    /\ last_exec.submitted # None
    /\ ~last_exec.ok
    /\ ~last_exec.raised
    /\ last_exec.msg = Rejected

-----------------------------------------------------------------------------
(* Claims about the advisory client, checked under SpecApi *)

\* the logs describe a _call_grok_api call that has returned
CallReturned == pc \in {"api_return", "analyzed", "idle"}

FailedByServerOrTimeout(o) == IsServerError(o) \/ o.kind = "timeout"

\* C7 as stated: one analyze_market call sends at most max_retries + 1
\* requests to the advisory service, the reduced scope adding one request.
C7_AtMostOneExtraRequest == requests <= max_retries + 1

\* C7 amended: after a failed full-scope call exactly one more _call_grok_api
\* call is made, with the reduced scope and its own max_retries attempts:
\* no call makes more than max_retries attempts, one analyze_market call
\* sends at most 2 * max_retries requests, and it returns without a response
\* only after the reduced-scope call.
C7_OneReducedCall ==
    /\ Len(http_log) <= max_retries
    /\ requests <= 2 * max_retries
    /\ requests > max_retries => reduced
    /\ (pc = "analyzed" /\ grok_response = None) => reduced

\* the reduced-scope call has itself used up all its attempts
C7_Witness ==
    /\ pc = "analyzed"
    /\ grok_response = None
    /\ reduced
    /\ requests = 2 * max_retries

\* the delays slept before attempts 2 .. k+1
Delays(k) == [i \in 1..k |-> 2 ^ (i - 1)]

\* C8: in one _call_grok_api call, when the first k attempts end in a server
\* error or a timeout and attempt k+1 is answered 200 with a payload, the
\* call has returned after exactly k+1 attempts, the delays slept were 1s
\* then 2s, and the payload is what it returned; and when the last allowed
\* attempt fails, the call returns with no delay slept after it.
C8_RetryThenSuccess ==
    LET n == Len(http_log) IN
    /\ (/\ n >= 1
        /\ IsUsable200(http_log[n])
        /\ \A i \in 1..(n - 1) : FailedByServerOrTimeout(http_log[i]))
       => /\ CallReturned
          /\ n <= max_retries
          /\ sleeps = Delays(n - 1)
          /\ grok_response = http_log[n].content
    /\ (/\ n = max_retries
        /\ \A i \in 1..n : FailedByServerOrTimeout(http_log[i]))
       => /\ CallReturned
          /\ sleeps = Delays(n - 1)
          /\ grok_response = None

\* two failures, then a 200 whose payload is returned
C8_Witness ==
    /\ pc = "api_return"
    /\ Len(http_log) = 3
    /\ IsServerError(http_log[1])
    /\ http_log[2].kind = "timeout"
    /\ IsUsable200(http_log[3])
    /\ grok_response # None
    /\ grok_response = http_log[3].content
    /\ sleeps = <<1, 2>>

\* C9: a request answered with a status that is not 200 and is below 500
\* ends the _call_grok_api call with a failure: no backoff is slept after it
\* and no further request is sent with the same scope.
C9_ClientErrorFailsAtOnce ==
    LET n == Len(http_log) IN
    (n >= 1 /\ IsClientError(http_log[n]))
       => /\ CallReturned
          /\ grok_response = None
          /\ Len(sleeps) = n - 1

\* a client error answers the second attempt
C9_Witness ==
    /\ pc = "api_return"
    /\ Len(http_log) = 2
    /\ IsClientError(http_log[2])
    /\ sleeps = <<1>>
    /\ grok_response = None

\* C10 as stated: whenever analyze_market returns failure, the pending error
\* list is what it was before the call.
C10_FailureKeepsErrors ==
    (pc = "analyzed" /\ analysis = None) => trade_errors = errors_at_call

\* C10 amended: analyze_market clears the pending error list exactly when it
\* obtained a response: a call that returns failure because every attempt
\* failed leaves the list as it was, a call that returns failure because the
\* response could not be turned into actions has cleared it.
C10_ClearedIffResponse ==
    pc = "analyzed"
       => IF grok_response = None
          THEN analysis = None /\ trade_errors = errors_at_call
          ELSE trade_errors = <<>>

\* pending errors survive a call in which every attempt failed
C10_Witness ==
    /\ pc = "analyzed"
    /\ grok_response = None
    /\ analysis = None
    /\ errors_at_call # <<>>
    /\ trade_errors = errors_at_call

-----------------------------------------------------------------------------
(* The trading cycle and the loop around it                                 *)

\* where the trading task is inside execute_trading_cycle
CycleSteps == {"http", "backoff", "api_return", "analyzed", "trades"}

CycleEnds == pc \in CycleSteps /\ pc' \notin CycleSteps

\* C21: no failure inside a trading cycle leaves execute_trading_cycle as an
\* exception: whatever failed (the snapshot, the advisory call, the
\* resolution, the guard, the submission), the cycle returns to the loop,
\* which is still active and sleeps before the next cycle; only the
\* cancellation of the task ends a cycle in another way.  While the loop is
\* active and sleeping, the next cycle can start.
C21_FailedCycleReturnsToLoop ==
    /\ [][CycleEnds => \/ pc' = "sleep" /\ trading_active' = trading_active
                       \/ shutdown' = "cancelled"]_vars
    /\ []((pc = "sleep" /\ trading_active /\ cycles < MaxCycles)
              => ENABLED StartCycle)

\* the first cycle got no advice, from the full-scope call or the reduced
\* one, and the loop is asleep and active
C21_Witness ==
    /\ pc = "sleep"
    /\ cycles = 1
    /\ reduced
    /\ grok_response = None
    /\ analysis = None
    /\ trading_active

\* the advisory call of the cycle gave no response, or a response that
\* resolves to no trade: no document, an entry without symbol, or no entry
\* that is a row of the resolver's table
NothingToTrade ==
    \/ grok_response = None
    \/ ~HoldsDocument(grok_response)
    \/ ~AllHaveSymbol(Actions(grok_response))
    \/ SelectSeq(Actions(grok_response), Accepted) = <<>>

\* C22 as stated: a cycle in which the advisory request fails, or in which
\* the response resolves to zero trades, is a no-op for the brokerage and the
\* feedback store: no order is submitted and the store holds what it held
\* when the cycle began.
C22_NoTradesIsNoOp ==
    NothingToTrade
        => /\ submit_calls = <<>>
           /\ trade_errors = errors_at_call

\* C22 amended: such a cycle submits no order, calls execute_trade for
\* nothing and records no TradeError; the store is left as it was when the
\* advisory request failed, and is emptied when a response was obtained,
\* also when that response resolves to zero trades.
C22_NoTradesNoOrderNoError ==
    NothingToTrade
        => /\ submit_calls = <<>>
           /\ last_exec = NoExec
           /\ pc # "trades"
           /\ trade_errors \in {errors_at_call, <<>>}
           /\ pc = "analyzed"
                => trade_errors = IF grok_response = None THEN errors_at_call
                                  ELSE <<>>

\* the second cycle began with an error pending; its response holds one
\* entry, which the resolver rejects: nothing was submitted and the store
\* is empty
C22_Witness ==
    /\ pc = "sleep"
    /\ cycles = 2
    /\ errors_at_call # <<>>
    /\ grok_response # None
    /\ HoldsDocument(grok_response)
    /\ Actions(grok_response) = <<OpenDown>>
    /\ analysis # None
    /\ last_analysis = analysis
    /\ account_info # EmptyDict
    /\ submit_calls = <<>>
    /\ trade_errors = <<>>

-----------------------------------------------------------------------------
(* Confidence and urgency                                                   *)

\* the confidence and urgency values a resolved trade may carry: format_trades
\* resolves no entry whose confidence is no number
Confidences == {Number(c) : c \in {0, 5, 10}}

Urgencies == {"LOW", "MEDIUM", "HIGH"}

\* the trade with another confidence and another urgency
Regraded(trade, c, u) == [trade EXCEPT !.confidence = c, !.urgency = u]

\* C23: confidence and urgency never gate execution: a trade the cycle has
\* resolved and the same trade with any other confidence and urgency get the
\* same answer of should_execute_trade and, whatever the brokerage answers,
\* the same guard decision, the same order parameters and the same result
\* of execute_trade.
C23_ConfidenceUrgencyDoNotGate ==
    (pc = "analyzed" /\ analysis # None)
        => \A i \in 1..Len(Trades(analysis)), c \in Confidences, u \in Urgencies :
             LET trade == Trades(analysis)[i]
                 other == Regraded(trade, c, u)
             IN  /\ IsNumber(trade.confidence)
                 /\ should_execute_trade(other) = should_execute_trade(trade)
                 /\ \A account \in Accounts, current_positions \in PositionReads,
                       lookup \in Lookups, rejects \in BOOLEAN :
                      /\ GuardOutcome(other.symbol, other.side, other.qty,
                                      account, current_positions, lookup)
                           = GuardOutcome(trade.symbol, trade.side, trade.qty,
                                          account, current_positions, lookup)
                      /\ execute_trade(other, account, current_positions,
                                       lookup, rejects)
                           = execute_trade(trade, account, current_positions,
                                           lookup, rejects)

\* a buy whose confidence and urgency are not the default ones was
\* submitted with the parameters the default ones give
C23_Witness ==
    /\ pc = "sleep"
    /\ analysis # None
    /\ Len(Trades(analysis)) = 1
    /\ Trades(analysis)[1].confidence = Number(9)
    /\ Trades(analysis)[1].urgency = "HIGH"
    /\ Len(submit_calls) = 1
    /\ submit_calls[1].order = OrderParams(MakeTrade(BuyAapl))

-----------------------------------------------------------------------------
(* One cycle, one trade at a time                                           *)

CycleBegins == cycles' # cycles

DashboardRequestServed == emergency_stopped' # emergency_stopped

\* C24: at most one trading cycle is in progress and, within it, at most one
\* trade is being checked or submitted: a cycle begins only from the sleep
\* of the loop, never while the task is suspended inside a cycle; inside a
\* cycle execute_trade is called and orders are sent only by the step that
\* handles the one trade idx points to, which then moves idx by one; and a
\* dashboard request served meanwhile begins no cycle and handles no trade.
C24_OneCycleOneTrade ==
    [][/\ CycleBegins => pc = "sleep" /\ cycles' = cycles + 1
       /\ (pc # "sleep" /\ (last_exec' # last_exec \/ submit_calls' # submit_calls))
            => /\ pc = "trades"
               /\ idx' = idx + 1
               /\ last_exec'.trade = Trades(analysis)[idx]
               /\ Len(submit_calls') <= Len(submit_calls) + 1
               /\ \A k \in (Len(submit_calls) + 1)..Len(submit_calls') :
                     submit_calls'[k].trade = idx
       /\ DashboardRequestServed
            => UNCHANGED <<pc, cycles, idx, last_exec, submit_calls, analysis>>]_vars

\* a dashboard request was served while the first cycle was suspended, and
\* the cycle has gone on to its second trade
C24_Witness ==
    /\ emergency_stopped
    /\ cycles = 1
    /\ pc = "trades"
    /\ idx = 2
    /\ last_exec.called

-----------------------------------------------------------------------------
(* The sells of one cycle                                                   *)

\* the total quantity of the sell orders for symbol among the submit_order
\* calls
RECURSIVE SellsSubmitted(_, _)
SellsSubmitted(calls, symbol) ==
    IF calls = <<>> THEN 0
    ELSE (IF Head(calls).order.symbol = symbol /\ Head(calls).order.side = "sell"
          THEN Head(calls).order.qty ELSE 0)
         + SellsSubmitted(Tail(calls), symbol)

\* C25: within one trading cycle (no order fills in it: the positions stay
\* what they were) the total quantity of the sell orders submitted for a
\* symbol, added to the quantity of the sell orders already open for it,
\* never exceeds the position quantity reported for that symbol.
C25_CycleSellsWithinPosition ==
    \A symbol \in Symbols :
        SellsSubmitted(submit_calls, symbol) > 0
            => SellsSubmitted(submit_calls, symbol)
                 + LockedShares(open_orders, symbol)
                    <= AvailableQty(positions, symbol)

-----------------------------------------------------------------------------
(* Sells and the position                                                   *)

\* the signed quantity the account holds of symbol, 0 when it holds none
HeldQty(symbol) ==
    IF \E i \in 1..Len(positions) : positions[i].symbol = symbol
    THEN positions[CHOOSE i \in 1..Len(positions) :
                      /\ positions[i].symbol = symbol
                      /\ \A j \in 1..(i - 1) : positions[j].symbol # symbol].qty
    ELSE 0

\* the trade execute_trade was last called for in this cycle
LastTrade == last_exec.trade

-----------------------------------------------------------------------------
(* Buys and the reference price                                             *)

\* the lookup gave a trade with a price
PriceObtained(lookup) == ~lookup.raises /\ lookup.price # 0

\* C27: a buy order is submitted only after a reference price for the symbol
\* was obtained and price x quantity was found not to exceed the buying
\* power: when the lookup returns no trade or no price the buy is refused, as
\* it is when the lookup raises.
C27_BuyNeedsReferencePrice ==
    (last_exec.called /\ last_exec.trade.side = "buy")
        => /\ last_exec.submitted # None
                => /\ PriceObtained(last_exec.lookup)
                   /\ last_exec.lookup.price * last_exec.trade.qty
                         <= last_exec.account["buying_power"]
           /\ ~PriceObtained(last_exec.lookup) => last_exec.submitted = None

-----------------------------------------------------------------------------
(* Requests after a 200                                                     *)

Is200(o) == o.kind = "status" /\ o.status = 200

\* a 200 whose envelope holds a content that is not empty
HasContent(o) == IsUsable200(o) /\ o.content # None

\* a 200 whose envelope holds an empty content
EmptyContent(o) == IsUsable200(o) /\ o.content = None

InAnalyzeMarket == pc \notin {"idle", "analyzed"}

RequestSent == requests' # requests

\* C28 as stated: within one analyze_market call, once a request was
\* answered with HTTP 200, no further request is sent, whatever the body
\* holds.
C28_NoRequestAfter200 ==
    [][(InAnalyzeMarket /\ \E i \in 1..Len(http_log) : Is200(http_log[i]))
          => ~RequestSent]_vars

\* C28 amended: once a request was answered with HTTP 200 and a content that
\* is not empty, no further request is sent in that analyze_market call,
\* whether or not the content holds JSON.  A 200 with an unusable envelope is
\* handled like any unexpected error: it is retried after the backoff while
\* attempts are left.  A 200 with an empty content ends the call like a
\* failure: after the full-scope call the reduced-scope call follows.
C28_NoRequestAfterContent ==
    /\ [][(InAnalyzeMarket /\ \E i \in 1..Len(http_log) : HasContent(http_log[i]))
             => ~RequestSent]_vars
    /\ [](LET n == Len(http_log) IN
          /\ (n >= 1 /\ n < max_retries /\ http_log[n] = Unusable200)
                => pc \in {"backoff", "http"} /\ grok_response = None
          /\ (n >= 1 /\ EmptyContent(http_log[n]) /\ ~reduced /\ InAnalyzeMarket)
                => StartsReducedCall)

\* a server error, then a 200 whose content holds no JSON: the call has
\* returned failure after these two requests
C28_Witness ==
    /\ pc = "analyzed"
    /\ requests = 2
    /\ Len(http_log) = 2
    /\ IsServerError(http_log[1])
    /\ HasContent(http_log[2])
    /\ http_log[2].content.text = <<"x">>
    /\ analysis = None
    /\ ~reduced

-----------------------------------------------------------------------------
(* Entries without symbol, entries the resolver rejects                     *)

\* the cycle has the result of format_trades for the response it holds
Resolved ==
    /\ pc \in {"analyzed", "trades", "sleep", "done"}
    /\ grok_response # None
    /\ HoldsDocument(grok_response)

\* every entry the resolver accepts has a confidence its log line can format
ConfidencesAreNumbers(actions) ==
    \A i \in 1..Len(actions) :
        Accepted(actions[i])
            => IsNumber(Get(actions[i], "confidence", DefaultConfidence))

TradeSymbols(trades) == [i \in 1..Len(trades) |-> trades[i].symbol]

RECURSIVE AcceptedSymbols(_)
AcceptedSymbols(actions) ==
    IF actions = <<>> THEN <<>>
    ELSE (IF Accepted(Head(actions)) THEN <<Head(actions)["symbol"]>> ELSE <<>>)
         \o AcceptedSymbols(Tail(actions))

\* C29: when an entry of a decoded response lacks the symbol field,
\* format_trades fails for the whole response and the cycle executes no
\* trade of that response, those of its well-formed entries included; when
\* every entry has a symbol, an entry with an invalid action/sign
\* combination is skipped alone and the other entries are resolved, in
\* their order.
C29_NoSymbolFailsAllInvalidSkipsOne ==
    Resolved =>
        IF ~AllHaveSymbol(Actions(grok_response))
        THEN /\ analysis = None
             /\ submit_calls = <<>>
             /\ last_exec = NoExec
             /\ pc # "trades"
        ELSE ConfidencesAreNumbers(Actions(grok_response))
                => /\ analysis # None
                   /\ TradeSymbols(Trades(analysis))
                        = AcceptedSymbols(Actions(grok_response))
                   /\ Sides(Trades(analysis))
                        = TableSides(Actions(grok_response))

\* a valid sell beside an entry without symbol, position and account being
\* there: the cycle has ended and nothing was executed
C29_Witness ==
    /\ pc = "sleep"
    /\ grok_response # None
    /\ HoldsDocument(grok_response)
    /\ Actions(grok_response) = <<SellAapl, NoSymbolField>>
    /\ positions = <<[symbol |-> "AAPL", qty |-> 3]>>
    /\ account_info # EmptyDict
    /\ analysis = None
    /\ submit_calls = <<>>
    /\ last_exec = NoExec

-----------------------------------------------------------------------------
(* A cycle without the account snapshot                                     *)

NoSnapshot == account_info = EmptyDict

\* C30: when get_account_info gave the cycle an empty record, the cycle
\* submits no order and calls execute_trade for no trade, and the guard for
\* its part refuses every trade when its own get_account_info gives an empty
\* record; the advisory request of the cycle is sent all the same (a cycle
\* that begins either finds the market closed and fetches nothing, or goes
\* on to the request whatever the snapshot holds) and, when it brings a
\* response, the pending errors are cleared, the analysis is kept as
\* last_analysis and its trades are dropped.
C30_NoAccountNoOrder ==
    /\ [](NoSnapshot
            => /\ submit_calls = <<>>
               /\ last_exec = NoExec
               /\ pc # "trades"
               /\ (pc \in {"analyzed", "sleep", "done"} /\ grok_response # None)
                     => trade_errors = <<>>
               /\ (pc \in {"sleep", "done"} /\ analysis # None)
                     => last_analysis = analysis)
    /\ []((last_exec.called /\ last_exec.account = EmptyDict)
            => /\ last_exec.submitted = None
               /\ last_exec.outcome = "no account"
               /\ ~last_exec.ok)
    /\ [][CycleBegins
            => \/ pc' = "http"
               \/ pc' = "sleep" /\ UNCHANGED <<account_info, grok_response, analysis>>]_vars

\* the second cycle had no snapshot and an error pending: the response it got
\* resolves to a trade, the error is cleared and the trade was dropped
C30_Witness ==
    /\ pc = "sleep"
    /\ cycles = 2
    /\ NoSnapshot
    /\ errors_at_call # <<>>
    /\ grok_response # None
    /\ analysis # None
    /\ Trades(analysis) # <<>>
    /\ last_analysis = analysis
    /\ trade_errors = <<>>
    /\ submit_calls = <<>>
    /\ last_exec = NoExec

-----------------------------------------------------------------------------
(* What changes the error store                                             *)

StoreChanges == trade_errors' # trade_errors

\* the step records the failure of the trade it attempted: the entry of
\* that trade is appended and the oldest entries beyond the limit are dropped
RecordsFailure ==
    /\ pc = "trades"
    /\ last_exec'.called
    /\ last_exec'.trade = Trades(analysis)[idx]
    /\ ~last_exec'.ok
    /\ trade_errors' =
          LastEntries(Append(trade_errors,
                             [symbol |-> last_exec'.trade.symbol,
                              action |-> last_exec'.trade.action_type,
                              error  |-> last_exec'.msg]), 10)

\* the step is the clear of analyze_market, which has a response
ClearsInAnalyze ==
    /\ pc = "api_return"
    /\ grok_response # None
    /\ trade_errors' = <<>>

\* the step builds the prompt of a cycle
BuildsPrompt == pc = "sleep" /\ pc' = "http"

\* C31: the error store is changed only by recording the failure of an
\* attempted trade (append with eviction) and by the clear inside
\* analyze_market: building the prompt reads the store (the prompt lists
\* what it holds) and leaves it as it is; the step that resolves the
\* actions leaves in it nothing but what the clear left, whatever the
\* resolver accepted or rejected; a trade that is skipped and a trade that
\* is submitted successfully leave it unchanged.
C31_StoreChangedByRecordAndClearOnly ==
    [][/\ StoreChanges => RecordsFailure \/ ClearsInAnalyze
       /\ BuildsPrompt => ~StoreChanges /\ prompt_errors' = trade_errors
       /\ (pc = "api_return" /\ pc' = "analyzed")
             => trade_errors' \in {trade_errors, <<>>}
       /\ (HandlesTrade /\ (SubmittedOk \/ Trades(analysis)[idx].symbol = ""))
             => ~StoreChanges]_vars

\* the first trade of the cycle was refused and recorded, the second was
\* submitted successfully and the store still holds the one error
C31_Witness ==
    /\ pc = "sleep"
    /\ analysis # None
    /\ Len(Trades(analysis)) = 2
    /\ Len(trade_errors) = 1
    /\ trade_errors[1].action = Trades(analysis)[1].action_type
    /\ Len(submit_calls) = 1
    /\ submit_calls[1].trade = 2
    /\ submit_calls[1].accepted

-----------------------------------------------------------------------------
(* Termination of the advisory call                                         *)

AnalyzeMarketRunning == pc \in {"http", "backoff", "api_return"}

AnalyzeMarketReturned == pc = "analyzed"

\* C32: every _call_grok_api call ends after at most max_retries (3) HTTP
\* attempts, and every analyze_market call that has begun returns, with an
\* advice result or with failure, whatever the service answers, provided each
\* request is answered or times out.
C32_AnalyzeMarketReturns ==
    /\ [](Len(http_log) <= 3 /\ attempt < 3)
    /\ AnalyzeMarketRunning ~> AnalyzeMarketReturned

\* both calls have used their three attempts on an exception, a timeout and
\* a server error, and analyze_market has returned failure
C32_Witness ==
    /\ pc = "analyzed"
    /\ analysis = None
    /\ reduced
    /\ requests = 6
    /\ Len(http_log) = 3
    /\ http_log[1] = OtherException
    /\ http_log[2] = Timeout
    /\ IsServerError(http_log[3])

-----------------------------------------------------------------------------
(* The order of the trades of a cycle                                       *)

\* C33: within a cycle the resolved trades are attempted one by one in the
\* order of the advisory response: the trades are those of the accepted
\* entries in their order, each step takes the trade idx points to and moves
\* idx by one, and whatever became of that trade (refused by the guard,
\* rejected by the brokerage, submitted) the loop goes on to the next trade
\* while there is one; a cycle that had trades and an account snapshot ends
\* only after its last trade.
C33_TradesAttemptedInOrder ==
    /\ [][HandlesTrade =>
            LET trade == Trades(analysis)[idx] IN
            /\ idx' = idx + 1
            /\ analysis' = analysis
            /\ trade.symbol # ""
                  => last_exec'.called /\ last_exec'.trade = trade
            /\ pc' = IF idx < Len(Trades(analysis)) THEN "trades" ELSE "sleep"]_vars
    /\ []((pc = "trades" /\ HoldsDocument(grok_response))
            => /\ idx \in 1..Len(Trades(analysis))
               /\ TradeSymbols(Trades(analysis))
                     = AcceptedSymbols(Actions(grok_response)))
    /\ []((/\ pc \in {"sleep", "done"}
           /\ analysis # None
           /\ Trades(analysis) # <<>>
           /\ account_info # EmptyDict)
            => idx = Len(Trades(analysis)) + 1)

\* the guard refused the first trade, the second went to the brokerage,
\* which rejected it: both are recorded and the cycle has ended
C33_Witness ==
    /\ pc = "sleep"
    /\ analysis # None
    /\ Len(Trades(analysis)) = 2
    /\ idx = 3
    /\ Len(trade_errors) = 2
    /\ trade_errors[1].error = UnknownError
    /\ trade_errors[2].error = Rejected
    /\ Len(submit_calls) = 1
    /\ submit_calls[1].trade = 2
    /\ ~submit_calls[1].accepted

-----------------------------------------------------------------------------
(* A cycle that finds the market closed                                     *)

\* the cycle that begins is told by check_market_open that the market is
\* closed (the answer also when the clock query fails)
ClosedMarketCycle == CycleBegins /\ ~clock'.market_open

\* C34: when check_market_open answers that the market is closed at the
\* start of a cycle, the cycle sends no advisory request (no prompt is built,
\* no client is made, the task is back in the loop's sleep), submits no order
\* and leaves the error store and the last analysis unchanged.
C34_ClosedMarketCycleDoesNothing ==
    /\ [][ClosedMarketCycle
            => /\ pc' = "sleep"
               /\ submit_calls' = <<>>
               /\ UNCHANGED <<trade_errors, recorded, last_analysis, analysis,
                              grok_response, prompt_errors, errors_at_call,
                              attempt, reduced, client, account_info,
                              trading_active>>]_vars
    /\ []((cycles > 0 /\ clock.window /\ ~clock.market_open)
            => /\ pc \in {"sleep", "done"}
               /\ submit_calls = <<>>
               /\ last_exec = NoExec)

\* the second cycle found the market closed: the error and the analysis of
\* the first are still there
C34_Witness ==
    /\ pc = "sleep"
    /\ cycles = 2
    /\ clock.window
    /\ ~clock.market_open
    /\ trade_errors # <<>>
    /\ last_analysis # None
    /\ last_analysis = analysis
    /\ submit_calls = <<>>

-----------------------------------------------------------------------------
(* The end of the trading day                                               *)

\* the loop, active, wakes from its sleep and runs an iteration
LoopIterates ==
    /\ pc = "sleep"
    /\ trading_active
    /\ UNCHANGED <<shutdown, emergency_stopped>>
    /\ vars' # vars

\* the market is closed or five or fewer minutes remain until the close
FiveMinutesOrLess(minutes_left) ==
    IF minutes_left = None THEN TRUE ELSE minutes_left[1] <= 5

\* C35: the loop starts a trading cycle only when more than 5 minutes remain
\* until the close and the time is inside the trading window; an iteration
\* that finds the market closed or 5 or fewer minutes remaining sets
\* trading_active to false and leaves the loop without starting a cycle; an
\* iteration with more time left leaves the loop active.
C35_NoCycleInLastFiveMinutes ==
    [][/\ CycleBegins
            => /\ ~FiveMinutesOrLess(clock'.minutes_left)
               /\ clock'.window
               /\ trading_active
       /\ LoopIterates
            => IF FiveMinutesOrLess(clock'.minutes_left)
               THEN /\ ~trading_active'
                    /\ pc' = "done"
                    /\ UNCHANGED <<cycles, submit_calls, last_exec, trade_errors,
                                   grok_response, analysis>>
               ELSE /\ trading_active'
                    /\ pc' \in {"sleep", "http"}
                    /\ CycleBegins <=> clock'.window]_vars

\* after one cycle the loop found five minutes left and has ended
C35_Witness ==
    /\ pc = "done"
    /\ cycles = 1
    /\ clock.minutes_left = <<5>>
    /\ ~trading_active
    /\ shutdown = "no"
    /\ last_analysis # None

====
